---- MODULE Spec2Model ----
(***************************************************************************)
(* Seihai: the Item Store, Undo Buffer and save debounce of src/App.tsx,   *)
(* as a state machine.  Strings are sequences of one-character strings so  *)
(* that trim() and split(/\r?\n/) are computed, not assumed.               *)
(***************************************************************************)
EXTENDS Integers, Sequences, FiniteSets, TLC

(* ------------------------------ bounds --------------------------------- *)
\* ids makeId hands out in one session
MaxIds == 2
\* longest ItemCollection (commit and restore stop there)
MaxItems == 3
\* most 200 ms clear timeouts pending at once
MaxClear == 2
\* lines of the one commit that a reorder session starts from
MaxMove == 5
\* rows of the list that a session of deleting, dragging and restoring starts from
MaxRows == 3
\* most thoughts handed to generateAction in one call
MaxThoughts == 3
\* most characters of a raw text handed to splitThoughts
MaxRaw == 4

(* ----------------------------- constants -------------------------------- *)
NoUndo == [none |-> TRUE]
(* a key of localStorage: absent, or present with its text                  *)
NoKey == [present |-> FALSE, text |-> <<>>]
NoTimer == [idle |-> TRUE]
NoId == 0

LF == "\n"
CR == "\r"
SP == " "

(* what the user types into the textarea: empty, blank, one line, the same *)
(* line twice, and padded lines with CR LF, LF and an empty line between   *)
DraftInputs ==
  { <<>>,
    <<SP, LF>>,
    <<"a">>,
    <<"a", LF, "a">>,
    <<SP, "b", CR, LF, SP, LF, "a", CR>> }

(* ------------------------------ strings --------------------------------- *)
IsWhite(c) == c \in {SP, LF, CR}

RECURSIVE TrimStart(_)
TrimStart(s) ==
  IF s = <<>> THEN <<>>
  ELSE IF IsWhite(Head(s)) THEN TrimStart(Tail(s)) ELSE s

RECURSIVE TrimEnd(_)
TrimEnd(s) ==
  IF s = <<>> THEN <<>>
  ELSE IF IsWhite(s[Len(s)]) THEN TrimEnd(SubSeq(s, 1, Len(s) - 1)) ELSE s

TrimOnlyStart(s) == TrimStart(s)

RECURSIVE TrimSpacesOnly(_)
TrimSpacesOnly(s) ==
  IF s = <<>> THEN <<>>
  ELSE IF Head(s) = SP THEN TrimSpacesOnly(Tail(s))
  ELSE IF s[Len(s)] = SP THEN TrimSpacesOnly(SubSeq(s, 1, Len(s) - 1))
  ELSE s

(* String.prototype.trim                                                   *)
Trim(s) == TrimEnd(TrimStart(s))

(* s.split(/\r?\n/): scan left to right; CR LF and a bare LF both end the  *)
(* current piece, a CR not followed by LF stays in the piece.              *)
RECURSIVE SplitFrom(_, _, _)
SplitFrom(s, cur, out) ==
  IF s = <<>> THEN Append(out, cur)
  ELSE IF Len(s) >= 2 /\ s[1] = CR /\ s[2] = LF
       THEN SplitFrom(SubSeq(s, 3, Len(s)), <<>>, Append(out, cur))
  ELSE IF s[1] = LF
       THEN SplitFrom(Tail(s), <<>>, Append(out, cur))
  ELSE SplitFrom(Tail(s), Append(cur, s[1]), out)

(* a commit that takes the whole draft as one line                         *)
SplitNever(s) == <<s>>

SplitLines(s) == SplitFrom(s, <<>>, <<>>)

MapTrim(lines) == [i \in 1..Len(lines) |-> Trim(lines[i])]

(* a filter that lets every line through                                   *)
KeepAll(lines) == lines

RECURSIVE FilterBoolean(_)
FilterBoolean(lines) ==
  IF lines = <<>> THEN <<>>
  ELSE IF Head(lines) # <<>>
       THEN <<Head(lines)>> \o FilterBoolean(Tail(lines))
       ELSE FilterBoolean(Tail(lines))

(* addThoughtsFromDraft: v.split(/\r?\n/).map(trim).filter(Boolean)         *)
Parts(v) == FilterBoolean(MapTrim(SplitLines(v)))

(* splitThoughts of model/thought.ts: the trimmed non-empty lines, each     *)
(* once, in the order of their first occurrence                            *)
RECURSIVE Dedup(_, _)
Dedup(lines, out) ==
  IF lines = <<>> THEN out
  ELSE IF \E i \in 1..Len(out) : out[i] = Head(lines)
       THEN Dedup(Tail(lines), out)
       ELSE Dedup(Tail(lines), Append(out, Head(lines)))

SplitThoughts(rawText) == Dedup(FilterBoolean(MapTrim(SplitLines(rawText))), <<>>)

(* generateAction of model/thought.ts.  A character outside ASCII is named  *)
(* by its code point: U+3084 (ya), U+308B (ru), U+3059 (su) and U+FF1F, the *)
(* full-width question mark.                                                *)
Ya == "U+3084"
Ru == "U+308B"
Su == "U+3059"
FullQ == "U+FF1F"

(* the regular expression finds word somewhere in t                         *)
Contains(t, word) ==
  \E i \in 1..(Len(t) - Len(word) + 1) : SubSeq(t, i, i + Len(word) - 1) = word

(* /TODO|U+3084 U+308B|U+3059 U+308B/.test(t)                                *)
TestTodo(t) ==
  \/ Contains(t, <<"T", "O", "D", "O">>)
  \/ Contains(t, <<Ya, Ru>>)
  \/ Contains(t, <<Su, Ru>>)

(* /[?U+FF1F]/.test(t)                                                       *)
TestQuestion(t) == \E i \in 1..Len(t) : t[i] \in {"?", FullQ}

(* thoughts.find(test): the first element that passes, or undefined; pass  *)
(* tells for every index whether the element there passes the test          *)
Find(thoughts, pass) ==
  IF \E i \in 1..Len(thoughts) : pass[i]
  THEN [found |-> TRUE,
        v |-> thoughts[CHOOSE i \in 1..Len(thoughts) :
                         pass[i] /\ \A j \in 1..(i - 1) : ~pass[j]]]
  ELSE [found |-> FALSE, v |-> <<>>]

(* if (x): undefined and the empty string are falsy                         *)
Truthy(x) == x.found /\ x.v # <<>>

FindTodo(thoughts) ==
  Find(thoughts, [i \in 1..Len(thoughts) |-> TestTodo(thoughts[i])])

FindQuestion(thoughts) ==
  Find(thoughts, [i \in 1..Len(thoughts) |-> TestQuestion(thoughts[i])])

(* a selector that looks for the question before the action                 *)
QuestionFirst(thoughts) ==
  IF Truthy(FindQuestion(thoughts)) THEN FindQuestion(thoughts).v
  ELSE IF Truthy(FindTodo(thoughts)) THEN FindTodo(thoughts).v
  ELSE IF thoughts # <<>> THEN thoughts[1]
  ELSE <<>>

GenerateAction(thoughts) ==
  IF Truthy(FindTodo(thoughts)) THEN FindTodo(thoughts).v
  ELSE IF Truthy(FindQuestion(thoughts)) THEN FindQuestion(thoughts).v
  ELSE IF thoughts # <<>> THEN thoughts[1]
  ELSE <<>>

(* ------------------------------ arrays ---------------------------------- *)
Ids(arr) == {arr[i].id : i \in 1..Len(arr)}

(* prev.findIndex((x) => x.id === id), 0-based, -1 when absent              *)
FindIndex(arr, id) ==
  IF \E i \in 1..Len(arr) : arr[i].id = id
  THEN (CHOOSE i \in 1..Len(arr) :
          arr[i].id = id /\ \A j \in 1..(i - 1) : arr[j].id # id) - 1
  ELSE -1

(* Array.prototype.splice start normalisation (0-based)                    *)
SpliceStart(arr, start) ==
  IF start < 0
  THEN (IF Len(arr) + start < 0 THEN 0 ELSE Len(arr) + start)
  ELSE (IF start > Len(arr) THEN Len(arr) ELSE start)

(* next.splice(start, 1): the array left behind                            *)
SpliceRemove(arr, start) ==
  LET k == SpliceStart(arr, start) IN
  IF k >= Len(arr) THEN arr
  ELSE SubSeq(arr, 1, k) \o SubSeq(arr, k + 2, Len(arr))

(* const [removed] = next.splice(start, 1)                                 *)
SpliceRemoved(arr, start) == arr[SpliceStart(arr, start) + 1]

(* next.splice(start, 0, x)                                                *)
SpliceInsert(arr, start, x) ==
  LET k == SpliceStart(arr, start) IN
  SubSeq(arr, 1, k) \o <<x>> \o SubSeq(arr, k + 1, Len(arr))

Min(a, b) == IF a < b THEN a ELSE b


(* ------------------------------- JSON ----------------------------------- *)
(* The stored blob is text: a sequence of characters.  A JSON value is      *)
(* [t, v]: t its type, v its characters (str, num, lit), its elements (arr) *)
(* or its members [k, val] (obj).                                           *)
QT == "\""
BS == "\\"

KeyDraft == <<"d", "r", "a", "f", "t">>
KeyItems == <<"i", "t", "e", "m", "s">>
KeyId == <<"i", "d">>
KeyText == <<"t", "e", "x", "t">>

Digits == <<"0", "1", "2", "3", "4", "5", "6", "7", "8", "9">>

(* the string makeId returned for the n-th id: here its decimal numeral     *)
RECURSIVE IdStr(_)
IdStr(n) ==
  IF n < 10 THEN <<Digits[n + 1]>>
  ELSE Append(IdStr(n \div 10), Digits[(n % 10) + 1])

(* a writer that puts every character out as it is                         *)
EscapeNothing(c) == <<c>>

(* JSON.stringify of a string: QuoteJSONString                             *)
EscapeChar(c) ==
  IF c = QT THEN <<BS, QT>>
  ELSE IF c = BS THEN <<BS, BS>>
  ELSE IF c = LF THEN <<BS, "n">>
  ELSE IF c = CR THEN <<BS, "r">>
  ELSE <<c>>

RECURSIVE Escape(_)
Escape(s) == IF s = <<>> THEN <<>> ELSE EscapeChar(Head(s)) \o Escape(Tail(s))

Quote(s) == <<QT>> \o Escape(s) \o <<QT>>

StringifyItem(it) ==
  <<"{">> \o Quote(KeyId) \o <<":">> \o Quote(IdStr(it.id)) \o <<",">>
          \o Quote(KeyText) \o <<":">> \o Quote(it.text) \o <<"}">>

RECURSIVE StringifyItems(_)
StringifyItems(arr) ==
  IF arr = <<>> THEN <<>>
  ELSE IF Len(arr) = 1 THEN StringifyItem(arr[1])
  ELSE StringifyItem(arr[1]) \o <<",">> \o StringifyItems(Tail(arr))

(* JSON.stringify({ draft, items })                                         *)
Stringify(d, arr) ==
  <<"{">> \o Quote(KeyDraft) \o <<":">> \o Quote(d) \o <<",">>
          \o Quote(KeyItems) \o <<":", "[">> \o StringifyItems(arr)
          \o <<"]", "}">>

(* JSON.parse: a recursive-descent reading of the text.  Each step gives    *)
(* [ok, val, rest]; ok = FALSE is the SyntaxError.                          *)
JNull == [t |-> "null", v |-> <<>>]
JLit(name) == [t |-> name, v |-> <<>>]
JStr(cs) == [t |-> "str", v |-> cs]
JNum(cs) == [t |-> "num", v |-> cs]
JArr(els) == [t |-> "arr", v |-> els]
JObj(ms) == [t |-> "obj", v |-> ms]
Undefined == [t |-> "undefined", v |-> <<>>]

Fail == [ok |-> FALSE, val |-> JNull, rest |-> <<>>]
Ok(val, rest) == [ok |-> TRUE, val |-> val, rest |-> rest]

IsDigit(c) == \E i \in 1..10 : Digits[i] = c

RECURSIVE SkipWs(_)
SkipWs(s) ==
  IF s # <<>> /\ Head(s) \in {SP, LF, CR} THEN SkipWs(Tail(s)) ELSE s

StartsWith(s, word) == Len(s) >= Len(word) /\ SubSeq(s, 1, Len(word)) = word

Drop(s, n) == SubSeq(s, n + 1, Len(s))

(* a string, read from behind its opening quote: \" \\ \/ \n \r are the     *)
(* escapes of this alphabet; a raw line break inside a string is an error   *)
RECURSIVE ParseStringBody(_, _)
ParseStringBody(s, acc) ==
  IF s = <<>> THEN Fail
  ELSE IF s[1] = QT THEN Ok(JStr(acc), Tail(s))
  ELSE IF s[1] \in {LF, CR} THEN Fail
  ELSE IF s[1] = BS
       THEN IF Len(s) < 2 THEN Fail
            ELSE IF s[2] \in {QT, BS, "/"}
                 THEN ParseStringBody(Drop(s, 2), Append(acc, s[2]))
            ELSE IF s[2] = "n" THEN ParseStringBody(Drop(s, 2), Append(acc, LF))
            ELSE IF s[2] = "r" THEN ParseStringBody(Drop(s, 2), Append(acc, CR))
            ELSE Fail
  ELSE ParseStringBody(Tail(s), Append(acc, s[1]))

(* a number: 0, or a digit 1..9 and the digits behind it                    *)
RECURSIVE ParseDigits(_, _)
ParseDigits(s, acc) ==
  IF s # <<>> /\ IsDigit(s[1]) THEN ParseDigits(Tail(s), Append(acc, s[1]))
  ELSE Ok(JNum(acc), s)

ParseNumber(s) ==
  IF s[1] = "0" THEN Ok(JNum(<<"0">>), Tail(s)) ELSE ParseDigits(s, <<>>)

RECURSIVE ParseValue(_), ParseElements(_, _), ParseMembers(_, _)
ParseValue(s) ==
  LET t == SkipWs(s) IN
  IF t = <<>> THEN Fail
  ELSE IF t[1] = QT THEN ParseStringBody(Tail(t), <<>>)
  ELSE IF t[1] = "["
       THEN LET u == SkipWs(Tail(t)) IN
            IF u # <<>> /\ u[1] = "]" THEN Ok(JArr(<<>>), Tail(u))
            ELSE ParseElements(u, <<>>)
  ELSE IF t[1] = "{"
       THEN LET u == SkipWs(Tail(t)) IN
            IF u # <<>> /\ u[1] = "}" THEN Ok(JObj(<<>>), Tail(u))
            ELSE ParseMembers(u, <<>>)
  ELSE IF IsDigit(t[1]) THEN ParseNumber(t)
  ELSE IF StartsWith(t, <<"n", "u", "l", "l">>) THEN Ok(JNull, Drop(t, 4))
  ELSE IF StartsWith(t, <<"t", "r", "u", "e">>) THEN Ok(JLit("true"), Drop(t, 4))
  ELSE IF StartsWith(t, <<"f", "a", "l", "s", "e">>)
       THEN Ok(JLit("false"), Drop(t, 5))
  ELSE Fail

ParseElements(s, acc) ==
  LET r == ParseValue(s)
      t == SkipWs(r.rest)
  IN IF ~r.ok \/ t = <<>> THEN Fail
     ELSE IF t[1] = "," THEN ParseElements(Tail(t), Append(acc, r.val))
     ELSE IF t[1] = "]" THEN Ok(JArr(Append(acc, r.val)), Tail(t))
     ELSE Fail

ParseMembers(s, acc) ==
  LET t == SkipWs(s)
      k == ParseStringBody(Tail(t), <<>>)
      u == SkipWs(k.rest)
      r == ParseValue(Tail(u))
      w == SkipWs(r.rest)
      ms == Append(acc, [k |-> k.val.v, val |-> r.val])
  IN IF t = <<>> \/ t[1] # QT THEN Fail
     ELSE IF ~k.ok \/ u = <<>> \/ u[1] # ":" THEN Fail
     ELSE IF ~r.ok \/ w = <<>> THEN Fail
     ELSE IF w[1] = "," THEN ParseMembers(Tail(w), ms)
     ELSE IF w[1] = "}" THEN Ok(JObj(ms), Tail(w))
     ELSE Fail

(* JSON.parse(text): one value and nothing but white space behind it        *)
Parse(text) ==
  LET r == ParseValue(text) IN
  IF r.ok /\ SkipWs(r.rest) = <<>> THEN r ELSE Fail

(* value.key of a parsed value: only an object has members, and of two      *)
(* members with one key the later one counts                               *)
Has(val, key) == val.t = "obj" /\ \E i \in 1..Len(val.v) : val.v[i].k = key

Get(val, key) ==
  IF Has(val, key)
  THEN val.v[CHOOSE i \in 1..Len(val.v) :
               /\ val.v[i].k = key
               /\ \A j \in (i + 1)..Len(val.v) : val.v[j].k # key].val
  ELSE Undefined

(* ------------------------------ storage --------------------------------- *)
Stored(text) == [present |-> TRUE, text |-> text]

EmptyState == [draft |-> <<>>, items |-> <<>>]

(* the number of the id whose string is cs                                  *)
IdNum(cs) == CHOOSE n \in 1..99 : IdStr(n) = cs

(* a guard that looks for the two members and not at their types           *)
HasBothMembers(item) == Has(item, KeyId) /\ Has(item, KeyText)

(* the type guard of parsed.items.filter: typeof null and typeof [] are     *)
(* "object" too, null is excluded by name and an array has neither key      *)
IsThoughtItem(item) ==
  /\ item.t \in {"obj", "arr", "null"}
  /\ item.t # "null"
  /\ Has(item, KeyId)
  /\ Has(item, KeyText)
  /\ Get(item, KeyId).t = "str"
  /\ Get(item, KeyText).t = "str"

RECURSIVE FilterItems(_)
FilterItems(els) ==
  IF els = <<>> THEN <<>>
  ELSE IF IsThoughtItem(Head(els))
       THEN <<[id |-> IdNum(Get(Head(els), KeyId).v),
               text |-> Get(Head(els), KeyText).v]>> \o FilterItems(Tail(els))
       ELSE FilterItems(Tail(els))

(* const draft = typeof parsed.draft === "string" ? parsed.draft : ""        *)
DraftOf(d) == IF d.t = "str" THEN d.v ELSE <<>>

(* const items = Array.isArray(parsed.items) ? parsed.items.filter(..) : []  *)
ItemsOf(its) == IF its.t = "arr" THEN FilterItems(its.v) ELSE <<>>

(* what the try block does with the outcome of JSON.parse: the parse threw,  *)
(* or parsed is null and parsed.draft throws, or the state is read off       *)
ReadParsed(parsed) ==
  IF ~parsed.ok \/ parsed.val.t = "null"
  THEN [threw |-> TRUE, state |-> EmptyState]
  ELSE [threw |-> FALSE,
        state |-> [draft |-> DraftOf(Get(parsed.val, KeyDraft)),
                   items |-> ItemsOf(Get(parsed.val, KeyItems))]]

(* the try block of loadInitialState: what it returns, or that it threw     *)
(* (getItem threw, JSON.parse threw, or parsed was null and parsed.draft    *)
(* threw)                                                                  *)
LoadTry(slot, readThrows) ==
  IF readThrows THEN [threw |-> TRUE, state |-> EmptyState]
  ELSE IF ~slot.present \/ slot.text = <<>>
       THEN [threw |-> FALSE, state |-> EmptyState]
  ELSE ReadParsed(Parse(slot.text))

(* catch { return { draft: "", items: [] } }                                *)
Catch(r) ==
  IF r.threw THEN [crashed |-> FALSE, draft |-> <<>>, items |-> <<>>]
  ELSE [crashed |-> FALSE, draft |-> r.state.draft, items |-> r.state.items]

(* loadInitialState without its catch: the exception leaves the function    *)
LoadNoCatch(slot, readThrows) ==
  LET r == LoadTry(slot, readThrows) IN
  IF r.threw THEN [crashed |-> TRUE, draft |-> <<>>, items |-> <<>>]
  ELSE [crashed |-> FALSE, draft |-> r.state.draft, items |-> r.state.items]

(* loadInitialState: try { ... } catch { return { draft: "", items: [] } }  *)
LoadInitialState(slot, readThrows) == Catch(LoadTry(slot, readThrows))

(* What the key STORAGE_KEY can hold when the app starts.  A blob is given  *)
(* by what was put into it: d, the draft member (a string, a number or     *)
(* none), and its, the items member (an array of entries, an object or     *)
(* none).  An entry is a full item (good), a full item with its members in  *)
(* another order and one more member (extra), an item whose id is a number  *)
(* (numid), an item without text (notext), null, a string or an array.      *)
Entry(kind, id, text) == [k |-> kind, id |-> id, text |-> text]

RenderEntry(e) ==
  IF e.k = "good" THEN StringifyItem(e)
  ELSE IF e.k = "extra"
       THEN <<"{">> \o Quote(KeyText) \o <<":">> \o Quote(e.text) \o <<",", SP>>
                    \o Quote(KeyId) \o <<":">> \o Quote(IdStr(e.id)) \o <<",">>
                    \o Quote(<<"x">>) \o <<":", "t", "r", "u", "e", "}">>
  ELSE IF e.k = "numid"
       THEN <<"{">> \o Quote(KeyId) \o <<":">> \o IdStr(e.id) \o <<",">>
                    \o Quote(KeyText) \o <<":">> \o Quote(e.text) \o <<"}">>
  ELSE IF e.k = "notext"
       THEN <<"{">> \o Quote(KeyId) \o <<":">> \o Quote(IdStr(e.id)) \o <<"}">>
  ELSE IF e.k = "null" THEN <<"n", "u", "l", "l">>
  ELSE IF e.k = "str" THEN Quote(e.text)
  ELSE <<"[", "]">>

RECURSIVE RenderEntries(_)
RenderEntries(es) ==
  IF es = <<>> THEN <<>>
  ELSE IF Len(es) = 1 THEN RenderEntry(es[1])
  ELSE RenderEntry(es[1]) \o <<",">> \o RenderEntries(Tail(es))

RenderBlob(b) ==
  LET dm == IF b.d.k = "str" THEN Quote(KeyDraft) \o <<":">> \o Quote(b.d.v)
            ELSE IF b.d.k = "num" THEN Quote(KeyDraft) \o <<":", "7">>
            ELSE <<>>
      im == IF b.its.k = "arr"
            THEN Quote(KeyItems) \o <<":", "[">> \o RenderEntries(b.its.v) \o <<"]">>
            ELSE IF b.its.k = "obj" THEN Quote(KeyItems) \o <<":", "{", "}">>
            ELSE <<>>
  IN <<"{">> \o dm \o (IF dm # <<>> /\ im # <<>> THEN <<",">> ELSE <<>>) \o im
             \o <<"}">>

Blob(d, its) == [d |-> d, its |-> its]
DStr(v) == [k |-> "str", v |-> v]
DNum == [k |-> "num", v |-> <<>>]
DNone == [k |-> "none", v |-> <<>>]
IArr(es) == [k |-> "arr", v |-> es]
IObj == [k |-> "obj", v |-> <<>>]
INone == [k |-> "none", v |-> <<>>]

(* the ids of stored items: ids of an earlier session, which makeId does   *)
(* not give out again                                                      *)
StoredIds == {8, 9}

ShapedBlobs ==
  { Blob(DStr(<<"a", LF, QT>>), IArr(<<Entry("good", 8, <<"a">>)>>)),
    Blob(DStr(<<>>),
         IArr(<<Entry("numid", 8, <<"a">>), Entry("good", 9, <<"b", SP>>),
                Entry("null", 0, <<>>), Entry("extra", 8, <<"a">>)>>)),
    Blob(DNum,
         IArr(<<Entry("notext", 8, <<>>), Entry("str", 0, <<"a">>),
                Entry("arr", 0, <<>>)>>)),
    Blob(DStr(<<"b">>), IObj),
    Blob(DNone, IArr(<<Entry("extra", 9, <<BS>>), Entry("notext", 8, <<>>)>>)),
    Blob(DNone, INone) }

(* texts that are no JSON at all: empty, a blob cut off, raw lines          *)
EmptyText == <<>>
CutOffText == <<"{", QT, "d", "r", "a", "f", "t", QT, ":", QT, "a">>
LinesText == <<"a", LF, "a">>

(* JSON that is no object: null, a number, an array, a string               *)
NullText == <<"n", "u", "l", "l">>
NumberText == <<"4", "2">>
ArrayText == <<"[", "{", QT, "i", "d", QT, ":", QT, "1", QT, "}", "]">>
StringText == <<QT, "a", QT>>

RawTexts ==
  { EmptyText, CutOffText, LinesText, NullText, NumberText, ArrayText,
    StringText }

StoredTexts == {RenderBlob(b) : b \in ShapedBlobs} \cup RawTexts

StoredSlots == {NoKey} \cup {Stored(text) : text \in StoredTexts}

(* the key of the earlier version: absent, or its raw lines                 *)
LegacySlots == {NoKey, Stored(<<"a", LF, "a", LF, "b">>)}

(* ------------------------------- state ---------------------------------- *)
VARIABLES
  draft,        \* useState draft: the uncommitted text
  items,        \* useState items: sequence of [id, text]
  undo,         \* useState undo: NoUndo or [item, index]
  undoVisible,  \* useState undoVisible
  undoTimer,    \* TRUE while the 3800 ms timeout held in undoTimerRef is pending
  clearTimers,  \* number of pending untracked 200 ms "setUndo(null)" timeouts
  saveTimer,    \* NoTimer or the {draft, items} closure of the pending save timeout
  storage,      \* localStorage: cur is the key STORAGE_KEY, legacy the key
                \* "seihai_v1_rawText" an earlier version may have left
  nextId,       \* makeId: the next fresh id
  last,         \* history: the step taken last; for a delete, a restore or a
                \* commit also its id argument, whether it passed its guard
                \* and whether undo was non-null when it began
  snap,         \* history: items before a delete that is still the latest change
  wiped,        \* history: the ids that a confirmed resetAll found in items
                \* or in undo
  call          \* a call of a function of model/thought.ts: NoCall, or its
                \* name, its argument and, once it has returned, its result

vars == <<draft, items, undo, undoVisible, undoTimer, clearTimers, saveTimer,
          storage, nextId, last, snap, wiped, call>>

NoSnap == [taken |-> FALSE, items |-> <<>>]

NoCall == [fn |-> "none", arg |-> <<>>, returned |-> FALSE, ret |-> <<>>]

Did(op, id, ok) == [op |-> op, id |-> id, ok |-> ok, armed |-> undo # NoUndo]

Other == [op |-> "other", id |-> NoId, ok |-> TRUE, armed |-> FALSE]

(* the save effect: useEffect(..., [draft, items]) re-arms one timeout      *)
SaveEffect(d, arr) == [draft |-> d, items |-> arr]

(* parts.map((t) => ({ id: makeId(), text: t })): ids first, first+1, ...   *)
MakeItems(parts, first) ==
  [i \in 1..Len(parts) |-> [id |-> first + i - 1, text |-> parts[i]]]

(* loadInitialState with no stored blob, then the first run of the effects  *)
Init ==
  /\ draft = <<>>
  /\ items = <<>>
  /\ undo = NoUndo
  /\ undoVisible = FALSE
  /\ undoTimer = FALSE
  /\ clearTimers = 0
  /\ saveTimer = SaveEffect(<<>>, <<>>)
  /\ storage = [cur |-> NoKey, legacy |-> NoKey]
  /\ nextId = 1
  /\ last = Other
  /\ snap = NoSnap
  /\ wiped = {}
  /\ call = NoCall

(* ------------------------------ handlers -------------------------------- *)
(* the save effect without draft among its dependencies                    *)
SetDraftKeepsTimer(text) ==
  /\ draft' = text
  /\ last' = Other
  /\ snap' = NoSnap
  /\ wiped' = wiped
  /\ call' = call
  /\ UNCHANGED <<items, undo, undoVisible, undoTimer, clearTimers, saveTimer,
                 storage, nextId>>

(* typing that throws the pending undo away                                *)
SetDraftDropsUndo(text) ==
  /\ draft' = text
  /\ saveTimer' = IF text = draft THEN saveTimer ELSE SaveEffect(text, items)
  /\ undo' = NoUndo
  /\ last' = Other
  /\ snap' = NoSnap
  /\ wiped' = wiped
  /\ call' = call
  /\ UNCHANGED <<items, undoVisible, undoTimer, clearTimers, storage, nextId>>

(* textarea onChange: setDraft(e.target.value)                              *)
SetDraft(text) ==
  /\ draft' = text
  /\ saveTimer' = IF text = draft THEN saveTimer ELSE SaveEffect(text, items)
  /\ last' = Other
  /\ snap' = NoSnap
  /\ wiped' = wiped
  /\ call' = call
  /\ UNCHANGED <<items, undo, undoVisible, undoTimer, clearTimers, storage,
                 nextId>>

(* clearDraft, behind a button disabled while !draft.trim()                 *)
ClearDraft ==
  /\ Trim(draft) # <<>>
  /\ draft' = <<>>
  /\ saveTimer' = SaveEffect(<<>>, items)
  /\ last' = Other
  /\ snap' = NoSnap
  /\ wiped' = wiped
  /\ call' = call
  /\ UNCHANGED <<items, undo, undoVisible, undoTimer, clearTimers, storage,
                 nextId>>

(* addThoughtsFromDraft                                                    *)
AddThoughtsFromDraft ==
  LET v == Trim(draft)
      parts == Parts(v)
  IN IF v = <<>>
     THEN /\ last' = Did("commit", NoId, FALSE)
          /\ snap' = NoSnap
          /\ wiped' = wiped
          /\ call' = call
          /\ UNCHANGED <<draft, items, undo, undoVisible, undoTimer,
                         clearTimers, saveTimer, storage, nextId>>
     ELSE /\ nextId + Len(parts) - 1 <= MaxIds
          /\ Len(items) + Len(parts) <= MaxItems
          /\ items' = items \o MakeItems(parts, nextId)
          /\ nextId' = nextId + Len(parts)
          /\ draft' = <<>>
          /\ saveTimer' = SaveEffect(<<>>, items')
          /\ last' = Did("commit", NoId, TRUE)
          /\ snap' = NoSnap
          /\ wiped' = wiped
          /\ call' = call
          /\ UNCHANGED <<undo, undoVisible, undoTimer, clearTimers, storage>>

(* showUndo: setUndo(payload)                                              *)
KeepFirstPayload(cur, removed, index) ==
  IF cur = NoUndo THEN [item |-> removed, index |-> index] ELSE cur

OneBasedPayload(cur, removed, index) == [item |-> removed, index |-> index + 1]

ShowUndoPayload(cur, removed, index) == [item |-> removed, index |-> index]

(* onDelete's updater: the array it returns                                *)
DeleteUnguarded(prev, id) == SpliceRemove(prev, FindIndex(prev, id))

DeleteItems(prev, id) ==
  LET index == FindIndex(prev, id)
  IN IF index < 0 THEN prev ELSE SpliceRemove(prev, index)

(* SortableItem onDelete for the row of id (a row can be stale)             *)
OnDelete(id) ==
  LET index == FindIndex(items, id)
      next == DeleteItems(items, id)
  IN IF next = items
     THEN /\ last' = Did("delete", id, FALSE)
          /\ snap' = NoSnap
          /\ wiped' = wiped
          /\ call' = call
          /\ UNCHANGED <<draft, items, undo, undoVisible, undoTimer,
                         clearTimers, saveTimer, storage, nextId>>
     ELSE /\ items' = next
          /\ undo' = ShowUndoPayload(undo, SpliceRemoved(items, index), index)
          /\ undoVisible' = TRUE
          /\ undoTimer' = TRUE
          /\ saveTimer' = SaveEffect(draft, next)
          /\ last' = Did("delete", id, TRUE)
          /\ snap' = [taken |-> TRUE, items |-> items]
          /\ wiped' = wiped
          /\ call' = call
          /\ UNCHANGED <<draft, clearTimers, storage, nextId>>

(* undoDelete's updater                                                    *)
UndoInsertAtEnd(prev, u) == Append(prev, u.item)

(* a restore that builds the item anew from its id                          *)
UndoInsertRetyped(prev, u) ==
  SpliceInsert(prev, Min(u.index, Len(prev)), [id |-> u.item.id, text |-> <<"a">>])

UndoInsert(prev, u) == SpliceInsert(prev, Min(u.index, Len(prev)), u.item)

(* undoDelete (the toast button, rendered while undo is non-null)           *)
UndoDelete ==
  IF undo = NoUndo
  THEN /\ last' = Did("restore", NoId, FALSE)
       /\ snap' = NoSnap
       /\ wiped' = wiped
       /\ call' = call
       /\ UNCHANGED <<draft, items, undo, undoVisible, undoTimer, clearTimers,
                      saveTimer, storage, nextId>>
  ELSE /\ Len(items) < MaxItems
       /\ clearTimers < MaxClear
       /\ items' = UndoInsert(items, undo)
       /\ undoVisible' = FALSE
       /\ clearTimers' = clearTimers + 1
       /\ undoTimer' = FALSE
       /\ saveTimer' = SaveEffect(draft, items')
       /\ last' = Did("restore", NoId, TRUE)
       /\ snap' = IF last.op = "delete" /\ last.ok THEN snap ELSE NoSnap
       /\ wiped' = wiped
       /\ call' = call
       /\ UNCHANGED <<draft, undo, storage, nextId>>

(* a swap of the two positions instead of a move                           *)
ArraySwap(arr, from, to) ==
  LET f == SpliceStart(arr, from) + 1
      t == SpliceStart(arr, to) + 1
  IN [k \in 1..Len(arr) |->
        IF k = f THEN arr[t] ELSE IF k = t THEN arr[f] ELSE arr[k]]

(* arrayMove of @dnd-kit/sortable:                                         *)
(* newArray.splice(to < 0 ? newArray.length + to : to, 0,                  *)
(*                 newArray.splice(from, 1)[0])                            *)
(* The arguments are evaluated left to right: newArray.length is read       *)
(* before the inner splice takes the moved element out.                    *)
ArrayMove(arr, from, to) ==
  LET start == IF to < 0 THEN Len(arr) + to ELSE to
      moved == SpliceRemoved(arr, from)
      rest == SpliceRemove(arr, from)
  IN SpliceInsert(rest, start, moved)

(* onDragEnd working on the items of a render that a delete has outdated    *)
OnDragEndStale(active, over) ==
  LET seen == IF snap.taken THEN snap.items ELSE items IN
  /\ items # <<>>
  /\ IF over = NoId \/ active = over
     THEN /\ last' = Other
          /\ UNCHANGED <<items, saveTimer>>
     ELSE /\ items' = ArrayMove(seen, FindIndex(seen, active),
                                FindIndex(seen, over))
          /\ saveTimer' = SaveEffect(draft, items')
          /\ last' = [Other EXCEPT !.op = "reorder"]
  /\ snap' = NoSnap
  /\ wiped' = wiped
  /\ call' = call
  /\ UNCHANGED <<draft, undo, undoVisible, undoTimer, clearTimers, storage,
                 nextId>>

(* onDragEnd, reachable only while the list is rendered (items non-empty);  *)
(* over = NoId is event.over == null                                       *)
OnDragEnd(active, over) ==
  /\ items # <<>>
  /\ IF over = NoId \/ active = over
     THEN /\ last' = Other
          /\ UNCHANGED <<items, saveTimer>>
     ELSE /\ items' = ArrayMove(items, FindIndex(items, active),
                                FindIndex(items, over))
          /\ saveTimer' = SaveEffect(draft, items')
          /\ last' = [Other EXCEPT !.op = "reorder"]
  /\ snap' = NoSnap
  /\ wiped' = wiped
  /\ call' = call
  /\ UNCHANGED <<draft, undo, undoVisible, undoTimer, clearTimers, storage,
                 nextId>>

(* a resetAll that does not look at the answer of confirm()                 *)
ResetAllUngated(ok) ==
  /\ draft' = <<>>
  /\ items' = <<>>
  /\ storage' = [storage EXCEPT !.cur = NoKey]
  /\ saveTimer' = SaveEffect(<<>>, <<>>)
  /\ last' = Other
  /\ snap' = NoSnap
  /\ wiped' = wiped \cup Ids(items) \cup
                 (IF undo = NoUndo THEN {} ELSE {undo.item.id})
  /\ UNCHANGED <<undo, undoVisible, undoTimer, clearTimers, nextId, call>>

(* a resetAll whose render cancels the pending save and arms none          *)
ResetAllCancelsSave(ok) ==
  /\ IF ok THEN /\ draft' = <<>>
                /\ items' = <<>>
                /\ storage' = [storage EXCEPT !.cur = NoKey]
                /\ saveTimer' = NoTimer
     ELSE UNCHANGED <<draft, items, storage, saveTimer>>
  /\ last' = Other
  /\ snap' = NoSnap
  /\ wiped' = IF ok THEN wiped \cup Ids(items) \cup
                        (IF undo = NoUndo THEN {} ELSE {undo.item.id})
               ELSE wiped
  /\ UNCHANGED <<undo, undoVisible, undoTimer, clearTimers, nextId, call>>

(* resetAll, ok is the answer of confirm()                                  *)
ResetAll(ok) ==
  /\ IF ok
     THEN /\ draft' = <<>>
          /\ items' = <<>>
          /\ storage' = [storage EXCEPT !.cur = NoKey]
          /\ saveTimer' = SaveEffect(<<>>, <<>>)
     ELSE UNCHANGED <<draft, items, storage, saveTimer>>
  /\ last' = Other
  /\ snap' = NoSnap
  /\ wiped' = IF ok THEN wiped \cup Ids(items) \cup
                        (IF undo = NoUndo THEN {} ELSE {undo.item.id})
               ELSE wiped
  /\ UNCHANGED <<undo, undoVisible, undoTimer, clearTimers, nextId, call>>

(* ------------------------------- timers --------------------------------- *)
(* a timer that writes again and again (setInterval for setTimeout)         *)
SaveFireRepeats ==
  /\ saveTimer # NoTimer
  /\ storage' = [storage EXCEPT
                   !.cur = Stored(Stringify(saveTimer.draft, saveTimer.items))]
  /\ last' = [Other EXCEPT !.op = "saveFire"]
  /\ snap' = NoSnap
  /\ wiped' = wiped
  /\ call' = call
  /\ UNCHANGED <<draft, items, undo, undoVisible, undoTimer, clearTimers,
                 saveTimer, nextId>>

(* the save timeout: localStorage.setItem(STORAGE_KEY, JSON.stringify(..))  *)
SaveFire ==
  /\ saveTimer # NoTimer
  /\ storage' = [storage EXCEPT
                   !.cur = Stored(Stringify(saveTimer.draft, saveTimer.items))]
  /\ saveTimer' = NoTimer
  /\ last' = [Other EXCEPT !.op = "saveFire"]
  /\ snap' = NoSnap
  /\ wiped' = wiped
  /\ call' = call
  /\ UNCHANGED <<draft, items, undo, undoVisible, undoTimer, clearTimers,
                 nextId>>

(* the save timeout when setItem throws (quota exceeded, storage disabled): *)
(* nothing is written, the timeout is spent, and as nothing in the callback *)
(* catches, the exception leaves it as an uncaught error                    *)
SaveFireThrows ==
  /\ saveTimer # NoTimer
  /\ saveTimer' = NoTimer
  /\ last' = [Other EXCEPT !.op = "saveUncaught"]
  /\ snap' = NoSnap
  /\ wiped' = wiped
  /\ call' = call
  /\ UNCHANGED <<draft, items, undo, undoVisible, undoTimer, clearTimers,
                 storage, nextId>>

(* an expiry that shares its timer handle with the save timeout and so     *)
(* cancels the pending save                                                *)
UndoExpiryCancelsSave ==
  /\ undoTimer
  /\ clearTimers = 0
  /\ undoVisible' = FALSE
  /\ clearTimers' = 1
  /\ undoTimer' = FALSE
  /\ saveTimer' = NoTimer
  /\ last' = [Other EXCEPT !.op = "expiryFire"]
  /\ snap' = NoSnap
  /\ wiped' = wiped
  /\ call' = call
  /\ UNCHANGED <<draft, items, undo, storage, nextId>>

(* an expiry that hides the toast and never schedules setUndo(null)        *)
UndoExpiryOnlyHides ==
  /\ undoTimer
  /\ clearTimers = 0
  /\ undoVisible' = FALSE
  /\ undoTimer' = FALSE
  /\ last' = [Other EXCEPT !.op = "expiryFire"]
  /\ snap' = NoSnap
  /\ wiped' = wiped
  /\ call' = call
  /\ UNCHANGED <<draft, items, undo, clearTimers, saveTimer, storage, nextId>>

(* the 3800 ms timeout of showUndo.  Every 200 ms timeout still pending    *)
(* was scheduled before it, so it has fired by the time this one does.      *)
UndoExpiryFire ==
  /\ undoTimer
  /\ clearTimers = 0
  /\ undoVisible' = FALSE
  /\ clearTimers' = 1
  /\ undoTimer' = FALSE
  /\ last' = [Other EXCEPT !.op = "expiryFire"]
  /\ snap' = NoSnap
  /\ wiped' = wiped
  /\ call' = call
  /\ UNCHANGED <<draft, items, undo, saveTimer, storage, nextId>>

(* a 200 ms timeout: setUndo(null)                                         *)
UndoClearKeeps ==
  /\ clearTimers > 0
  /\ clearTimers' = clearTimers - 1
  /\ last' = [Other EXCEPT !.op = "clearFire"]
  /\ snap' = NoSnap
  /\ wiped' = wiped
  /\ call' = call
  /\ UNCHANGED <<draft, items, undo, undoVisible, undoTimer, saveTimer,
                 storage, nextId>>

UndoClearFire ==
  /\ clearTimers > 0
  /\ undo' = NoUndo
  /\ clearTimers' = clearTimers - 1
  /\ last' = [Other EXCEPT !.op = "clearFire"]
  /\ snap' = NoSnap
  /\ wiped' = wiped
  /\ call' = call
  /\ UNCHANGED <<draft, items, undoVisible, undoTimer, saveTimer, storage,
                 nextId>>

(* ---------------------------- specifications ---------------------------- *)
(* Spec: the Item Store and the Undo Buffer.  Every change re-arms the save *)
(* timeout in saveTimer; its firing only writes storage, which no handler   *)
(* reads, and is part of SpecSave.                                         *)
Next ==
  \/ \E text \in DraftInputs : SetDraft(text)
  \/ ClearDraft
  \/ AddThoughtsFromDraft
  \/ \E id \in 1..MaxIds : OnDelete(id)
  \/ UndoDelete
  \/ \E active \in 1..MaxIds, over \in 0..MaxIds : OnDragEnd(active, over)
  \/ \E ok \in BOOLEAN : ResetAll(ok)
  \/ UndoExpiryFire
  \/ UndoClearFire

Spec == Init /\ [][Next]_vars

(* SpecSave: the same session with the save timeout firing                  *)
NextSave ==
  \/ Next
  \/ SaveFire

SpecSave == Init /\ [][NextSave]_vars

(* SpecReorder: a session that has committed one draft of up to MaxMove     *)
(* lines (ids 1..n in line order) and from then on only drags rows; the    *)
(* ids beyond n are rows that are not in the list.                          *)
LineOf(i) == IF i % 2 = 1 THEN <<"a">> ELSE <<"b">>

InitReorder ==
  \E n \in 1..MaxMove :
    /\ draft = <<>>
    /\ items = MakeItems([i \in 1..n |-> LineOf(i)], 1)
    /\ undo = NoUndo
    /\ undoVisible = FALSE
    /\ undoTimer = FALSE
    /\ clearTimers = 0
    /\ saveTimer = SaveEffect(<<>>, items)
    /\ storage = [cur |-> NoKey, legacy |-> NoKey]
    /\ nextId = n + 1
    /\ last = Did("commit", NoId, TRUE)
    /\ snap = NoSnap
    /\ wiped = {}
    /\ call = NoCall

NextReorder ==
  \E active \in 1..MaxMove, over \in 0..MaxMove : OnDragEnd(active, over)

SpecReorder == InitReorder /\ [][NextReorder]_vars

(* SpecStore: the app starting on whatever an earlier session or anything   *)
(* else left under STORAGE_KEY, or on what the earlier version left under   *)
(* its own key; then typing, committing, clearing, the save timeout firing  *)
(* and the page being loaded again.  Rows are neither deleted nor dragged   *)
(* in these sessions: to the save effect a delete or a drag is one more     *)
(* change of items, as a commit is.                                         *)
(* history of a start: ok tells that getItem did not throw; an exception   *)
(* that leaves loadInitialState ends the app before it has rendered        *)
Loaded(initial, readThrows) ==
  [op |-> IF initial.crashed THEN "crash" ELSE "load", id |-> NoId,
   ok |-> ~readThrows, armed |-> FALSE]

InitStore ==
  \E cur \in StoredSlots, legacy \in LegacySlots, readThrows \in BOOLEAN :
    \E initial \in {LoadInitialState(cur, readThrows)} :
    /\ legacy.present => ~cur.present
    /\ storage = [cur |-> cur, legacy |-> legacy]
    /\ draft = initial.draft
    /\ items = initial.items
    /\ undo = NoUndo
    /\ undoVisible = FALSE
    /\ undoTimer = FALSE
    /\ clearTimers = 0
    /\ saveTimer = SaveEffect(initial.draft, initial.items)
    /\ nextId = 1
    /\ last = Loaded(initial, readThrows)
    /\ snap = NoSnap
    /\ wiped = {}
    /\ call = NoCall

(* the page is loaded again: the timers of the old page are gone, App is    *)
(* constructed from loadInitialState() and its effects run                  *)
Reload(readThrows) ==
  \E initial \in {LoadInitialState(storage.cur, readThrows)} :
  /\ draft' = initial.draft
  /\ items' = initial.items
  /\ undo' = NoUndo
  /\ undoVisible' = FALSE
  /\ undoTimer' = FALSE
  /\ clearTimers' = 0
  /\ saveTimer' = SaveEffect(initial.draft, initial.items)
  /\ last' = Loaded(initial, readThrows)
  /\ snap' = NoSnap
  /\ wiped' = wiped
  /\ call' = call
  /\ UNCHANGED <<storage, nextId>>

NextStore ==
  \/ \E text \in DraftInputs : SetDraft(text)
  \/ ClearDraft
  \/ AddThoughtsFromDraft
  \/ \E ok \in BOOLEAN : ResetAll(ok)
  \/ SaveFire
  \/ \E readThrows \in BOOLEAN : Reload(readThrows)

SpecStore == InitStore /\ [][NextStore]_vars

(* SpecOrder: a session that has committed one draft of up to MaxRows lines *)
(* and then deletes rows, drags rows and restores, with the undo timers     *)
InitOrder ==
  \E n \in 1..MaxRows :
    /\ draft = <<>>
    /\ items = MakeItems([i \in 1..n |-> LineOf(i)], 1)
    /\ undo = NoUndo
    /\ undoVisible = FALSE
    /\ undoTimer = FALSE
    /\ clearTimers = 0
    /\ saveTimer = SaveEffect(<<>>, items)
    /\ storage = [cur |-> NoKey, legacy |-> NoKey]
    /\ nextId = n + 1
    /\ last = Did("commit", NoId, TRUE)
    /\ snap = NoSnap
    /\ wiped = {}
    /\ call = NoCall

NextOrder ==
  \/ \E id \in 1..MaxRows : OnDelete(id)
  \/ \E active \in 1..MaxRows, over \in 0..MaxRows : OnDragEnd(active, over)
  \/ UndoDelete
  \/ UndoExpiryFire
  \/ UndoClearFire

SpecOrder == InitOrder /\ [][NextOrder]_vars

(* SpecUndo: the Item Store and the Undo Buffer with its timers, in         *)
(* sessions of typing, committing, deleting, restoring and dragging         *)
NextUndo ==
  \/ \E text \in DraftInputs : SetDraft(text)
  \/ AddThoughtsFromDraft
  \/ \E id \in 1..MaxIds : OnDelete(id)
  \/ UndoDelete
  \/ \E active \in 1..MaxIds, over \in 0..MaxIds : OnDragEnd(active, over)
  \/ UndoExpiryFire
  \/ UndoClearFire

SpecUndo == Init /\ [][NextUndo]_vars

(* SpecExpire: up to MaxRows committed rows, the user deleting and          *)
(* restoring, and the undo timers.  A timeout set with window.setTimeout    *)
(* and not cleared runs its callback once its delay has passed, which is    *)
(* weak fairness of the two timer actions.                                  *)
NextExpire ==
  \/ \E id \in 1..MaxRows : OnDelete(id)
  \/ UndoDelete
  \/ UndoExpiryFire
  \/ UndoClearFire

SpecExpire ==
  /\ InitOrder
  /\ [][NextExpire]_vars
  /\ WF_vars(UndoExpiryFire)
  /\ WF_vars(UndoClearFire)

(* SpecPersist: a whole session on a two-line draft (one commit makes two   *)
(* rows, which can then be deleted, restored and reordered), every handler  *)
(* that changes draft or items, and the save timeout with writes that       *)
(* succeed; the undo timers touch neither draft, items nor the save.  The   *)
(* debounce timeout is cleared only by the effect that arms the next one,   *)
(* so once armed a save runs: weak fairness of SaveFire.                    *)
PersistInputs == {<<>>, <<"a", LF, "a">>}

NextPersist ==
  \/ \E text \in PersistInputs : SetDraft(text)
  \/ AddThoughtsFromDraft
  \/ \E id \in 1..MaxIds : OnDelete(id)
  \/ UndoDelete
  \/ \E active \in 1..MaxIds, over \in 0..MaxIds : OnDragEnd(active, over)
  \/ \E ok \in BOOLEAN : ResetAll(ok)
  \/ SaveFire

SpecPersist == Init /\ [][NextPersist]_vars /\ WF_vars(SaveFire)

(* SpecOwn: the app started with no key in storage, so that everything a    *)
(* later start reads was written by its own save                            *)
SpecOwn == Init /\ [][NextStore]_vars

(* SpecClear: the app started on what storage held, the user deleting rows, *)
(* restoring, and answering the confirm of resetAll either way, with the    *)
(* save timeout and the undo timers firing; nothing is typed                *)
NextClear ==
  \/ \E id \in StoredIds : OnDelete(id)
  \/ UndoDelete
  \/ \E ok \in BOOLEAN : ResetAll(ok)
  \/ SaveFire
  \/ UndoExpiryFire
  \/ UndoClearFire

SpecClear == InitStore /\ [][NextClear]_vars

(* SpecQuota: a session of typing, committing and deleting in which a write *)
(* of the save timeout can succeed or throw                                 *)
NextQuota ==
  \/ \E text \in DraftInputs : SetDraft(text)
  \/ AddThoughtsFromDraft
  \/ \E id \in 1..MaxIds : OnDelete(id)
  \/ SaveFire
  \/ SaveFireThrows

SpecQuota == Init /\ [][NextQuota]_vars

(* SpecThought: one call of a function of model/thought.ts on an argument   *)
(* from a bounded set, and its return                                      *)
SeqsUpTo(S, n) == UNION {[1..k -> S] : k \in 0..n}

(* thoughts: empty, plain, with either question mark, with each action      *)
(* word, with a cut-off word, with an action word and a question mark       *)
ThoughtTexts ==
  { <<>>,
    <<"a">>,
    <<"a", "?">>,
    <<FullQ>>,
    <<"T", "O", "D">>,
    <<"T", "O", "D", "O">>,
    <<"a", Su, Ru>>,
    <<Ya, Ru, "?">> }

RawChars == {"a", "b", SP, LF, CR}

Calls ==
  {[fn |-> "generateAction", arg |-> th, returned |-> FALSE, ret |-> <<>>] :
     th \in SeqsUpTo(ThoughtTexts, MaxThoughts)}
  \cup
  {[fn |-> "splitThoughts", arg |-> raw, returned |-> FALSE, ret |-> <<>>] :
     raw \in SeqsUpTo(RawChars, MaxRaw)}

InitThought ==
  /\ draft = <<>>
  /\ items = <<>>
  /\ undo = NoUndo
  /\ undoVisible = FALSE
  /\ undoTimer = FALSE
  /\ clearTimers = 0
  /\ saveTimer = SaveEffect(<<>>, <<>>)
  /\ storage = [cur |-> NoKey, legacy |-> NoKey]
  /\ nextId = 1
  /\ last = Other
  /\ snap = NoSnap
  /\ wiped = {}
  /\ call \in Calls

GenerateActionReturns ==
  /\ call.fn = "generateAction"
  /\ ~call.returned
  /\ call' = [call EXCEPT !.returned = TRUE, !.ret = GenerateAction(call.arg)]
  /\ UNCHANGED <<draft, items, undo, undoVisible, undoTimer, clearTimers,
                 saveTimer, storage, nextId, last, snap, wiped>>

SplitThoughtsReturns ==
  /\ call.fn = "splitThoughts"
  /\ ~call.returned
  /\ call' = [call EXCEPT !.returned = TRUE, !.ret = SplitThoughts(call.arg)]
  /\ UNCHANGED <<draft, items, undo, undoVisible, undoTimer, clearTimers,
                 saveTimer, storage, nextId, last, snap, wiped>>

NextThought ==
  \/ GenerateActionReturns
  \/ SplitThoughtsReturns

SpecThought == InitThought /\ [][NextThought]_vars

(* ------------------------- vocabulary of the claims --------------------- *)
(* 1-based position of the first item with this id                         *)
Pos(arr, id) ==
  CHOOSE i \in 1..Len(arr) : arr[i].id = id /\ \A j \in 1..(i - 1) : arr[j].id # id

(* arr with x put in front of its k-th (0-based) element                    *)
InsertAt(arr, k, x) == SubSeq(arr, 1, k) \o <<x>> \o SubSeq(arr, k + 1, Len(arr))

AllWhite(s) == \A i \in 1..Len(s) : s[i] \in {SP, LF, CR}

NotBlank(s) == ~AllWhite(s)

(* t is line without its leading and trailing white space                   *)
IsTrimOf(t, line) ==
  /\ t # <<>>
  /\ t[1] \notin {SP, LF, CR}
  /\ t[Len(t)] \notin {SP, LF, CR}
  /\ \E i \in 1..Len(line) :
       /\ i + Len(t) - 1 <= Len(line)
       /\ SubSeq(line, i, i + Len(t) - 1) = t
       /\ AllWhite(SubSeq(line, 1, i - 1))
       /\ AllWhite(SubSeq(line, i + Len(t), Len(line)))

(* the lines of s, cut at every LF (the CR of a CR LF is trailing white)     *)
RECURSIVE LinesFrom(_, _)
LinesFrom(s, cur) ==
  IF s = <<>> THEN <<cur>>
  ELSE IF Head(s) = LF THEN <<cur>> \o LinesFrom(Tail(s), <<>>)
  ELSE LinesFrom(Tail(s), Append(cur, Head(s)))

NonBlankLines(s) == SelectSeq(LinesFrom(s, <<>>), NotBlank)

Armed == undo # NoUndo

(* arr without its k-th (1-based) element                                   *)
Without(arr, k) == SubSeq(arr, 1, k - 1) \o SubSeq(arr, k + 1, Len(arr))

IdsOf(arr) == [k \in 1..Len(arr) |-> arr[k].id]

(* -------------------------------- claims -------------------------------- *)
(* C1: after any sequence of store operations and timer firings, the ids in *)
(* ItemCollection are pairwise unique.  The code breaks it: undoDelete      *)
(* leaves undo set for 200 ms, so a second undoDelete inserts the item      *)
(* again.                                                                  *)
C1_UniqueIds ==
  \A i, j \in 1..Len(items) : i # j => items[i].id # items[j].id

(* C2: deleting the item at index i and then immediately calling restore   *)
(* yields the original ItemCollection: same ids, same texts, same order.    *)
C2_DeleteThenRestore ==
  (last.op = "restore" /\ last.ok /\ snap.taken) => items = snap.items

C2_Witness ==
  /\ last.op = "restore" /\ last.ok /\ snap.taken
  /\ Len(snap.items) >= 2
  /\ snap.items[1].id # undo.item.id
  /\ items = snap.items

(* C3: restore empties the Undo Buffer, so a further restore with no        *)
(* delete in between leaves ItemCollection unchanged.  The code breaks it:  *)
(* the buffer stays set until a 200 ms timeout, and the further restore     *)
(* inserts the item a second time.                                          *)
C3_FurtherRestoreIsNoOp ==
  [][(last.op = "restore" /\ last'.op = "restore") => items' = items]_vars

(* C4 as claimed: once the undo-expiry timer has fired without restore, the *)
(* Undo Buffer is Empty and a restore does not change ItemCollection.       *)
C4_ExpiredMeansEmpty ==
  [][/\ last'.op = "expiryFire" => undo' = NoUndo
     /\ (last.op = "expiryFire" /\ last'.op = "restore") => items' = items]_vars

(* C4 as amended: the expiry timer hides the toast, leaves the buffer as it *)
(* is and schedules the clear of the buffer 200 ms later; once that clear   *)
(* has fired the buffer is Empty, and restore on an Empty buffer changes    *)
(* neither ItemCollection nor the buffer.                                   *)
C4_ExpiryThenClear ==
  [][/\ last'.op = "expiryFire" =>
          /\ ~undoVisible'
          /\ undo' = undo
          /\ clearTimers' > 0
          /\ items' = items
     /\ last'.op = "clearFire" => undo' = NoUndo
     /\ (last'.op = "restore" /\ undo = NoUndo) =>
          (items' = items /\ undo' = NoUndo)]_vars

C4_Witness ==
  /\ last.op = "expiryFire"
  /\ Armed
  /\ ~undoVisible
  /\ undo.item.id \notin Ids(items)

(* C5: the Undo Buffer is single-slot.  A delete of b while the buffer is   *)
(* Armed leaves exactly (b, b's index before removal) in it; restore        *)
(* inserts the buffered item and nothing else; and an item that is neither  *)
(* in the collection nor in the buffer (a, once b has replaced it) is never *)
(* inserted again.                                                         *)
C5_SingleSlot ==
  [][/\ (last'.op = "delete" /\ last'.ok /\ Armed) =>
          undo' = [item |-> items[Pos(items, last'.id)],
                   index |-> Pos(items, last'.id) - 1]
     /\ (last'.op = "restore" /\ last'.ok) =>
          \E k \in 0..Len(items) : items' = InsertAt(items, k, undo.item)
     /\ \A id \in 1..(nextId - 1) :
          (id \notin Ids(items) /\ (Armed => undo.item.id # id))
            => id \notin Ids(items')]_vars

C5_Witness ==
  /\ last.op = "delete" /\ last.ok /\ last.armed
  /\ Armed /\ undo.item.id = last.id
  /\ \E id \in 1..(nextId - 1) : id # last.id /\ id \notin Ids(items)

(* C6: a pending undo stays restorable until its own expiry timer fires,    *)
(* restore is called or another delete supersedes it: while its expiry      *)
(* timer is pending the buffer is Armed.  The code breaks it: a 200 ms      *)
(* clear left over from an earlier undo empties the newer buffer.           *)
C6_OwnExpiryOnly == undoTimer => Armed

(* C7: deleteItem(id) with id present removes exactly that item, the others *)
(* keeping their order, and arms the buffer with the item and the index it  *)
(* had before removal.                                                     *)
C7_DeleteRemovesAndArms ==
  [][(last'.op = "delete" /\ last'.id \in Ids(items)) =>
       LET p == Pos(items, last'.id) IN
         /\ Len(items') = Len(items) - 1
         /\ \A j \in 1..(p - 1) : items'[j] = items[j]
         /\ \A j \in p..Len(items') : items'[j] = items[j + 1]
         /\ undo' = [item |-> items[p], index |-> p - 1]
         /\ undoVisible' /\ undoTimer']_vars

C7_Witness ==
  /\ last.op = "delete" /\ last.ok
  /\ Armed /\ undo.index >= 1
  /\ items # <<>>
  /\ last.id \notin Ids(items)

(* C8: deleteItem(id) with id not in ItemCollection is a silent no-op:      *)
(* ItemCollection, Draft, the Undo Buffer and its timers are unchanged.     *)
C8_DeleteAbsentIsNoOp ==
  [][(last'.op = "delete" /\ last'.id \notin Ids(items)) =>
       UNCHANGED <<items, draft, undo, undoVisible, undoTimer, clearTimers,
                   saveTimer, storage, nextId>>]_vars

C8_Witness ==
  /\ last.op = "delete" /\ ~last.ok
  /\ Armed /\ undoTimer /\ undo.item.id = last.id
  /\ items # <<>>

(* C9: commitDraft with a draft that is not blank appends, in line order,   *)
(* one item per non-blank line, its text the trimmed line and its id fresh  *)
(* and distinct; the items already there stay as a prefix; Draft becomes    *)
(* empty.                                                                  *)
C9_CommitAppends ==
  [][(last'.op = "commit" /\ NotBlank(draft)) =>
       LET kept == NonBlankLines(draft)
           n == Len(items)
       IN /\ Len(items') = n + Len(kept)
          /\ SubSeq(items', 1, n) = items
          /\ \A k \in 1..Len(kept) :
               /\ IsTrimOf(items'[n + k].text, kept[k])
               /\ items'[n + k].id >= nextId
               /\ items'[n + k].id \notin Ids(items)
               /\ \A m \in 1..Len(kept) :
                    m # k => items'[n + m].id # items'[n + k].id
          /\ draft' = <<>>]_vars

C9_Witness ==
  /\ last.op = "commit" /\ last.ok
  /\ Len(items) = 2
  /\ items[1].text = items[2].text
  /\ items[1].id # items[2].id
  /\ draft = <<>>

(* C10: commitDraft with an empty or blank draft is a no-op: ItemCollection,*)
(* Draft and the Undo Buffer are unchanged and no id is consumed.           *)
C10_BlankCommitIsNoOp ==
  [][(last'.op = "commit" /\ AllWhite(draft)) =>
       UNCHANGED <<items, draft, undo, undoVisible, undoTimer, clearTimers,
                   nextId>>]_vars

C10_Witness ==
  /\ last.op = "commit" /\ ~last.ok
  /\ draft # <<>>
  /\ items # <<>>
  /\ Armed

(* C11: reorder has move semantics.  A drag of the row at index i onto the  *)
(* row at index j gives a collection of the same length with that item at   *)
(* index j and the other items in their original relative order; moving     *)
(* position 0 to position 2 in [A,B,C,D] gives [B,C,A,D].                   *)
C11_ReorderMoves ==
  [][\A a, o \in 1..MaxMove :
       (OnDragEnd(a, o) /\ a \in Ids(items) /\ o \in Ids(items)) =>
         LET i == Pos(items, a)
             j == Pos(items, o)
         IN /\ Len(items') = Len(items)
            /\ items'[j] = items[i]
            /\ Without(items', j) = Without(items, i)
            /\ (Len(items) = 4 /\ i = 1 /\ j = 3) =>
                  items' = <<items[2], items[3], items[1], items[4]>>]_vars

C11_Witness ==
  /\ last.op = "reorder"
  /\ IdsOf(items) = <<2, 3, 1, 4>>
  /\ saveTimer = SaveEffect(draft, items)

(* C12: a reorder whose source id or target id is not in ItemCollection     *)
(* leaves ItemCollection exactly as it was.  The code breaks it: findIndex  *)
(* gives -1 and arrayMove is called all the same, which moves the last item *)
(* (unknown source) or moves the source to the end (unknown target).        *)
C12_ReorderUnknownIsNoOp ==
  [][\A a, o \in 1..MaxMove :
       (OnDragEnd(a, o) /\ (a \notin Ids(items) \/ o \notin Ids(items))) =>
         items' = items]_vars

(* C13: clearAll, once confirmed, sets Draft to the empty string and        *)
(* ItemCollection to the empty sequence and erases the persisted state      *)
(* under the current key and under the legacy key: right after it neither   *)
(* key is present.  The code breaks it: resetAll removes STORAGE_KEY only,  *)
(* so what an earlier version left under the legacy key stays.              *)
C13_ClearAllErasesBoth ==
  [][ResetAll(TRUE) =>
       /\ draft' = <<>>
       /\ items' = <<>>
       /\ ~storage'.cur.present
       /\ ~storage'.legacy.present]_vars

(* C14: clearAll is irreversible.  No item that was in ItemCollection or in *)
(* the Undo Buffer when a confirmed clearAll ran is in ItemCollection at    *)
(* any later time.  The code breaks it: resetAll leaves undo and its timer  *)
(* alone, and undoDelete puts the buffered item back into the cleared list. *)
C14_ClearAllIsIrreversible == Ids(items) \cap wiped = {}

(* what a start of the app would read back from the current key            *)
ReadBack(st) == LoadInitialState(st.cur, FALSE)

(* C15: setDraft calls that all fall within one debounce window, followed   *)
(* by a quiet period, give exactly one write to the current key, and it     *)
(* holds the final Draft.  A setDraft writes nothing itself; the write      *)
(* comes when the timeout fires, holds the Draft of the last call, and      *)
(* leaves no timeout behind, so a second write needs another change.        *)
C15_DebouncedSave ==
  [][/\ (\E text \in DraftInputs : SetDraft(text)) => storage' = storage
     /\ last'.op = "saveFire" =>
          /\ storage'.cur.present
          /\ ReadBack(storage').draft = draft
          /\ saveTimer' = NoTimer
          /\ last.op # "saveFire"]_vars

C15_Witness ==
  /\ last.op = "saveFire"
  /\ draft = <<"a", LF, "a">>
  /\ ReadBack(storage).draft = draft
  /\ saveTimer = NoTimer

(* C16: every write to the current key is the whole snapshot and equals     *)
(* the Draft and ItemCollection in memory when it happens: a pending save   *)
(* timeout always holds the current state, never an older one.              *)
C16_WritesCurrentSnapshot ==
  [][/\ saveTimer' # NoTimer => saveTimer' = [draft |-> draft', items |-> items']
     /\ last'.op = "saveFire" =>
          /\ ReadBack(storage').draft = draft'
          /\ ReadBack(storage').items = items'
          /\ storage'.legacy = storage.legacy]_vars

C16_Witness ==
  /\ last.op = "saveFire"
  /\ Len(items) >= 2
  /\ draft # <<>>
  /\ ReadBack(storage).items = items
  /\ ReadBack(storage).draft = draft

(* the characters of this model                                            *)
Chars == {SP, LF, CR, QT, BS, "a", "b"}

(* C17: load() never fails.  Whatever the current key holds (nothing, the   *)
(* empty string, text that does not parse, JSON that is no object) and also *)
(* when reading storage throws, the app starts on a well-formed state, and  *)
(* on { draft: "", items: [] } when the key is absent, the read threw or    *)
(* the text does not parse.                                                *)
C17_LoadNeverFails ==
  /\ last.op # "crash"
  /\ last.op = "load" =>
       /\ draft \in Seq(Chars)
       /\ \A i \in 1..Len(items) :
            /\ DOMAIN items[i] = {"id", "text"}
            /\ items[i].id \in Nat
            /\ items[i].text \in Seq(Chars)
       /\ (\/ ~last.ok
           \/ ~storage.cur.present
           \/ storage.cur.text \in {EmptyText, CutOffText, LinesText, NullText})
            => (draft = <<>> /\ items = <<>>)

C17_Witness ==
  /\ last.op = "load" /\ last.ok
  /\ storage.cur.present
  /\ storage.cur.text = NullText
  /\ draft = <<>> /\ items = <<>>

(* what the claim expects of a blob, told from what was put into it         *)
IsFullItem(e) == e.k \in {"good", "extra"}

ExpectedDraft(b) == IF b.d.k = "str" THEN b.d.v ELSE <<>>

ExpectedItems(b) ==
  IF b.its.k = "arr"
  THEN LET kept == SelectSeq(b.its.v, IsFullItem)
       IN [i \in 1..Len(kept) |-> [id |-> kept[i].id, text |-> kept[i].text]]
  ELSE <<>>

(* C18: load() sanitizes a parsed blob.  draft is the stored draft if that  *)
(* is a string and "" otherwise; items are exactly the stored entries that  *)
(* are objects with a string id and a string text, in their stored order,   *)
(* every other entry dropped; items is [] when the stored value is no array.*)
C18_LoadSanitizes ==
  \A b \in ShapedBlobs :
    (last.op = "load" /\ last.ok /\ storage.cur = Stored(RenderBlob(b))) =>
      (draft = ExpectedDraft(b) /\ items = ExpectedItems(b))

C18_Witness ==
  /\ last.op = "load" /\ last.ok
  /\ \E b \in ShapedBlobs :
       /\ storage.cur = Stored(RenderBlob(b))
       /\ b.d.k = "str"
       /\ Len(b.its.v) = 4
  /\ IdsOf(items) = <<9, 8>>

TextsOf(arr) == [k \in 1..Len(arr) |-> arr[k].text]

(* C19: persistence round-trips.  Once the save of the current state has    *)
(* completed (no save timeout is pending), a load gives back that state:    *)
(* the same draft and the same items in the same order.                     *)
C19_RoundTrip ==
  [][(last'.op = "load" /\ last'.ok /\ saveTimer = NoTimer) =>
       (draft' = draft /\ items' = items)]_vars

C19_Witness ==
  /\ last.op = "load" /\ last.ok
  /\ Len(draft) > 3
  /\ \E i \in 1..Len(draft) : draft[i] = CR
  /\ Len(items) >= 2
  /\ storage.cur.text = Stringify(draft, items)

(* C20: legacy migration.  When the current key is absent and the legacy    *)
(* key holds raw lines, load() gives { draft: "", items } with one item of  *)
(* a fresh id per distinct non-empty trimmed line, in the order of first    *)
(* occurrence, and the legacy key is absent afterwards.  The code breaks    *)
(* it: loadInitialState reads STORAGE_KEY only, starts empty and leaves the *)
(* legacy key as it is.                                                    *)
C20_LegacyMigration ==
  [][(/\ last'.op = "load" /\ last'.ok
      /\ ~storage.cur.present
      /\ storage.legacy.present) =>
       /\ draft' = <<>>
       /\ TextsOf(items') = SplitThoughts(storage.legacy.text)
       /\ \A i, j \in 1..Len(items') : i # j => items'[i].id # items'[j].id
       /\ ~storage'.legacy.present]_vars

(* C21: a failing storage write is swallowed: it propagates no error,       *)
(* leaves Draft, ItemCollection and the Undo Buffer unchanged and schedules *)
(* no retry, and a later change of Draft or ItemCollection schedules its    *)
(* own save of the state it produced.  The code breaks it: setItem is       *)
(* called in the timeout callback with no try around it, so the exception   *)
(* leaves the callback uncaught.                                           *)
C21_WriteFailureSwallowed ==
  [][/\ SaveFireThrows =>
          /\ last'.op # "saveUncaught"
          /\ UNCHANGED <<draft, items, undo, storage>>
          /\ saveTimer' = NoTimer
     /\ (saveTimer = NoTimer /\ <<draft, items>>' # <<draft, items>>) =>
          saveTimer' = SaveEffect(draft', items')]_vars

(* the claim's reading of the patterns                                     *)
HasWordAt(t, i, w) ==
  /\ i + Len(w) - 1 <= Len(t)
  /\ \A k \in 1..Len(w) : t[i + k - 1] = w[k]

Actionable(t) ==
  \E i \in 1..Len(t) :
    \E w \in {<<"T", "O", "D", "O">>, <<Ya, Ru>>, <<Su, Ru>>} : HasWordAt(t, i, w)

Asks(t) == \E i \in 1..Len(t) : t[i] = "?" \/ t[i] = FullQ

(* the element of th at the least index in S, S having one                  *)
FirstAt(th, S) == th[CHOOSE i \in S : \A j \in S : i <= j]

(* C22: selectAction follows a strict priority over the ordered thoughts:   *)
(* the first thought matching the actionable pattern if there is one, even  *)
(* behind a thought with a question mark; otherwise the first thought with  *)
(* an ASCII or full-width question mark; otherwise the thought at index 0;  *)
(* the empty string for an empty collection.  The result is "" or an        *)
(* element of the input.                                                    *)
C22_ActionPriority ==
  (call.fn = "generateAction" /\ call.returned) =>
    LET th == call.arg
        r == call.ret
        acts == {i \in 1..Len(th) : Actionable(th[i])}
        asks == {i \in 1..Len(th) : Asks(th[i])}
        anyAction == acts # {}
        anyAsks == asks # {}
    IN /\ anyAction => r = FirstAt(th, acts)
       /\ (~anyAction /\ anyAsks) => r = FirstAt(th, asks)
       /\ (~anyAction /\ ~anyAsks /\ th # <<>>) => r = th[1]
       /\ th = <<>> => r = <<>>
       /\ (r = <<>> \/ \E i \in 1..Len(th) : th[i] = r)

C22_Witness ==
  /\ call.fn = "generateAction" /\ call.returned
  /\ Len(call.arg) = 3
  /\ Asks(call.arg[1]) /\ ~Actionable(call.arg[1])
  /\ ~Actionable(call.arg[2])
  /\ Actionable(call.arg[3])
  /\ call.ret = call.arg[3]

(* C23: for every raw input, segment returns only strings that are          *)
(* non-empty and equal to their own trim, each the trim of a line of the    *)
(* input (cut at LF or CR LF), in input line order: the output is matched   *)
(* by lines of strictly increasing position.                                *)
C23_SegmentTrimmedLines ==
  (call.fn = "splitThoughts" /\ call.returned) =>
    LET lines == LinesFrom(call.arg, <<>>)
        out == call.ret
    IN /\ \A k \in 1..Len(out) : out[k] # <<>> /\ ~IsWhite(out[k][1])
                                   /\ ~IsWhite(out[k][Len(out[k])])
       /\ \E f \in [1..Len(out) -> 1..Len(lines)] :
            /\ \A k \in 1..Len(out) : IsTrimOf(out[k], lines[f[k]])
            /\ \A k \in 1..(Len(out) - 1) : f[k] < f[k + 1]

C23_Witness ==
  /\ call.fn = "splitThoughts" /\ call.returned
  /\ call.arg = <<SP, "a", CR, LF>> \/ call.arg = <<"b", CR, LF, "a">>
  /\ call.ret \in {<<<<"a">>>>, <<<<"b">>, <<"a">>>>}

(* C24: segment does not deduplicate: the output has one string per         *)
(* non-empty trimmed line of the input, exact duplicates included.  The     *)
(* code breaks it: splitThoughts keeps a Set of the lines seen and pushes   *)
(* each line once.                                                         *)
C24_SegmentKeepsDuplicates ==
  (call.fn = "splitThoughts" /\ call.returned) =>
    LET kept == NonBlankLines(call.arg)
    IN /\ Len(call.ret) = Len(kept)
       /\ \A k \in 1..Len(kept) : IsTrimOf(call.ret[k], kept[k])

(* C25: restore reinserts the buffered item at index                       *)
(* min(bufferedIndex, currentLength) of the current ItemCollection, where   *)
(* it then appears exactly once, every item already there keeping its       *)
(* relative order, whatever happened between the delete and the restore.    *)
(* The code breaks it: a second undoDelete within the 200 ms in which undo  *)
(* is still set inserts the item next to its first copy.                    *)
C25_RestoreAtClampedIndex ==
  [][(last'.op = "restore" /\ Armed) =>
       LET k == IF undo.index < Len(items) THEN undo.index ELSE Len(items)
       IN /\ Len(items') = Len(items) + 1
          /\ items'[k + 1] = undo.item
          /\ Without(items', k + 1) = items
          /\ Cardinality({i \in 1..Len(items') :
                            items'[i].id = undo.item.id}) = 1]_vars

(* how often x is in arr                                                    *)
Count(arr, x) == Cardinality({i \in 1..Len(arr) : arr[i] = x})

(* C26: store mutations are sequenced by arrival order, each applied to the *)
(* collection the operation before it produced: a delete takes its item out *)
(* of the current collection, a restore inserts into it, and a reorder      *)
(* gives the items of the current collection in another order, so that a    *)
(* reorder after a delete neither brings the deleted item back nor loses    *)
(* the delete.                                                             *)
C26_SequencedMutations ==
  [][/\ (last'.op = "delete" /\ last'.ok) =>
          items' = Without(items, Pos(items, last'.id))
     /\ (last'.op = "restore" /\ last'.ok) =>
          \E k \in 0..Len(items) : items' = InsertAt(items, k, undo.item)
     /\ last'.op = "reorder" =>
          /\ Len(items') = Len(items)
          /\ \A i \in 1..Len(items) : Count(items', items[i]) = Count(items, items[i])
          /\ (Armed /\ undo.item.id \notin Ids(items)) =>
                undo.item.id \notin Ids(items')]_vars

C26_Witness ==
  /\ last.op = "reorder"
  /\ Armed /\ undoTimer
  /\ undo.item.id \notin Ids(items)
  /\ Len(items) = 2
  /\ items[1].id > items[2].id

(* C27: the undo-expiry timer and the save debounce timer are independent.  *)
(* A setDraft or a commitDraft re-arms the save timer only (with the state  *)
(* it produced) and leaves the pending undo, its toast and its timers as    *)
(* they are; the firing of the undo expiry changes neither Draft nor        *)
(* ItemCollection nor storage nor the pending save timer.                   *)
C27_IndependentTimers ==
  [][/\ ((\E text \in DraftInputs : SetDraft(text)) \/ last'.op = "commit") =>
          /\ UNCHANGED <<undo, undoVisible, undoTimer, clearTimers>>
          /\ <<draft, items>>' # <<draft, items>> =>
                saveTimer' = SaveEffect(draft', items')
     /\ last'.op = "expiryFire" =>
          UNCHANGED <<draft, items, storage, saveTimer>>]_vars

C27_Witness ==
  /\ last.op = "expiryFire"
  /\ Armed
  /\ draft # <<>>
  /\ items # <<>>
  /\ saveTimer = SaveEffect(draft, items)

(* C28: while the Undo Buffer is Armed, setDraft, commitDraft and reorder    *)
(* leave the buffered item (id and text) and the buffered index unchanged;  *)
(* the buffer changes only in a delete, a restore (which schedules its      *)
(* clear) or an expiry (the clear, 200 ms behind it).                       *)
C28_BufferFrame ==
  [][/\ (/\ Armed
         /\ \/ \E text \in DraftInputs : SetDraft(text)
            \/ last'.op = "commit"
            \/ last'.op = "reorder") => undo' = undo
     /\ undo' # undo => last'.op \in {"delete", "clearFire"}]_vars

C28_Witness ==
  /\ last.op = "commit" /\ last.ok /\ last.armed
  /\ Armed /\ undoTimer
  /\ undo.item.id \notin Ids(items)
  /\ items # <<>>

(* C29: item text is immutable.  In every step, an id that is in            *)
(* ItemCollection before and after has the same text before and after; a    *)
(* delete buffers the item as it was, the buffer keeps its text as long as  *)
(* it holds that id, and a restore inserts the buffered item as it is, so   *)
(* an item deleted and later restored comes back with its text.             *)
C29_TextImmutable ==
  [][/\ \A i \in 1..Len(items), j \in 1..Len(items') :
          items[i].id = items'[j].id => items'[j].text = items[i].text
     /\ (last'.op = "delete" /\ last'.ok) =>
          undo'.item = items[Pos(items, last'.id)]
     /\ (Armed /\ undo' # NoUndo /\ undo'.item.id = undo.item.id) =>
          undo'.item.text = undo.item.text
     /\ (last'.op = "restore" /\ last'.ok) =>
          \E j \in 1..Len(items') : items'[j] = undo.item]_vars

C29_Witness ==
  /\ last.op = "restore" /\ last.ok
  /\ Len(items) = 2
  /\ items[1].text # items[2].text
  /\ undo.item.text = <<"b">>
  /\ \E j \in 1..2 : items[j] = undo.item

(* timers pending that will hide the toast or empty the Undo Buffer         *)
UndoTimersPending == (IF undoTimer THEN 1 ELSE 0) + clearTimers

(* C30: each concern has a single active timer: in every reachable state at *)
(* most one save timer is pending and at most one timer that will empty or  *)
(* hide the Undo Buffer is pending.  The code breaks it: the 200 ms         *)
(* timeouts that empty the buffer are kept in no ref and never cancelled,   *)
(* so one of them is pending next to the expiry timer of a newer delete, or *)
(* next to a second one.                                                    *)
C30_SingleTimerPerConcern ==
  /\ saveTimer = NoTimer \/ DOMAIN saveTimer = {"draft", "items"}
  /\ UndoTimersPending <= 1

(* C31: clearAll is gated by confirmation.  When the confirmation is        *)
(* declined, resetAll changes nothing: Draft, ItemCollection, the Undo      *)
(* Buffer and its toast, both storage keys and the pending timers are as    *)
(* they were.                                                              *)
C31_DeclinedClearIsNoOp ==
  [][ResetAll(FALSE) =>
       UNCHANGED <<draft, items, undo, undoVisible, undoTimer, clearTimers,
                   saveTimer, storage, nextId>>]_vars

(* in SpecClear the steps that record "other" are the resetAll steps, and a *)
(* confirmed one leaves no items behind                                     *)
C31_Witness ==
  /\ last.op = "other"
  /\ items # <<>>
  /\ draft # <<>>
  /\ Armed /\ undoVisible /\ undoTimer
  /\ saveTimer # NoTimer
  /\ storage.cur.present

(* C32: under fairness of timer firing, every Armed state of the Undo       *)
(* Buffer is eventually followed by Empty even if the user never calls      *)
(* restore(), provided no further delete occurs: the buffer never stays     *)
(* Armed forever.                                                          *)
C32_ArmedEventuallyEmpty ==
  (<>[][last'.op # "delete"]_vars) => [](Armed => <>(~Armed))

(* the buffer was emptied by the 200 ms timeout, no undo timer is left and  *)
(* a deleted row is still missing                                           *)
C32_Witness ==
  /\ last.op = "clearFire"
  /\ ~Armed
  /\ ~undoVisible
  /\ ~undoTimer
  /\ clearTimers = 0
  /\ Len(items) < nextId - 1

(* C33: under fairness of timer firing and successful writes, after the     *)
(* last change to Draft or ItemCollection (setDraft, commitDraft,           *)
(* deleteItem, reorder, restore, clearAll) the current storage key          *)
(* eventually holds exactly the in-memory {draft, items}, so that a later   *)
(* load() returns the state the session ended with.                         *)
Persisted ==
  /\ storage.cur = Stored(Stringify(draft, items))
  /\ ReadBack(storage).draft = draft
  /\ ReadBack(storage).items = items

C33_EventuallyPersisted ==
  (<>[][last'.op = "saveFire"]_vars) => <>[]Persisted

(* a save has just written a session that reordered two items               *)
C33_Witness ==
  /\ last.op = "saveFire"
  /\ Persisted
  /\ Len(items) = 2
  /\ items[1].id > items[2].id

(* C34: after clearAll, no write to storage ever contains draft text or     *)
(* items that existed before the clear: a confirmed resetAll removes the    *)
(* key and replaces the pending save by one of the empty state, so whatever *)
(* the key holds later was written after the clear, and it holds none of    *)
(* the items the clear found in ItemCollection or in the Undo Buffer.  The  *)
(* code breaks it: the buffer survives the clear, undoDelete puts its item  *)
(* back, and the save of that render writes it.                             *)
C34_NoPreClearWrites == Ids(ReadBack(storage).items) \cap wiped = {}

(* C35: in every reachable state, if the undo toast is marked visible       *)
(* (undoVisible is true) then a pending undo exists (undo is not null); no  *)
(* interleaving of deletes, restores and timer firings leaves the toast     *)
(* flagged visible with an empty buffer.  The code breaks it: the 200 ms    *)
(* setUndo(null) of a restore or an expiry is never cancelled, and fires    *)
(* after a new delete has set undoVisible.                                  *)
C35_VisibleImpliesPending == undoVisible => Armed

(* C36: starting from storage that is absent or was written only by this    *)
(* program, in every reachable state every item's text is non-empty, equal  *)
(* to its own trim, and contains no line break; so the derived action is    *)
(* the empty string only when ItemCollection is empty.                      *)
CleanText(t) ==
  /\ t # <<>>
  /\ t[1] \notin {SP, LF, CR}
  /\ t[Len(t)] \notin {SP, LF, CR}
  /\ \A i \in 1..Len(t) : t[i] \notin {LF, CR}

C36_ItemTextsClean ==
  /\ \A k \in 1..Len(items) : CleanText(items[k].text)
  /\ GenerateAction(TextsOf(items)) = <<>> <=> items = <<>>

(* the app has just started on a key its own save wrote, and loaded items   *)
C36_Witness ==
  /\ last.op = "load"
  /\ last.ok
  /\ Len(items) = 2
  /\ storage.cur = Stored(Stringify(draft, items))

====
